---- MODULE Spec2Model ----
(***************************************************************************)
(* A model of rust-bip39: the BIP39 mnemonic codec of src/src/lib.rs       *)
(* (from_entropy_in, validate_in, language_of, parse, parse_in,            *)
(* to_entropy) over the word tables of src/src/language/mod.rs.            *)
(*                                                                         *)
(* Text.  A text (a Rust &str) is a sequence of integer tokens.  A         *)
(* negative token is one white-space character; a token >= 0 is the        *)
(* spelling of one word-sized piece of text.  A "word" of a text is, as    *)
(* for str::split_whitespace, a maximal run of non-white-space tokens, so  *)
(* two pieces written without white space between them form ONE word,      *)
(* which is in no table.  Numeric order of tokens stands for the byte      *)
(* order of the strings.                                                   *)
(*                                                                         *)
(* Results.  Ok(v), Err(kind, arg) and Panic (a failed unwrap).            *)
(***************************************************************************)
EXTENDS Integers, Sequences, FiniteSets, TLC

(***************************************************************************)
(* Program constants.                                                      *)
(***************************************************************************)
TableSize == 2048
IndexBits == 11
ByteBits == 8
DigestLen == 32
MinEntropyBits == 128
MaxEntropyBits == 256
MinWords == 6
WordStep == 6
MaxWords == 24
RemainderBits == 32

\* The ASCII space words are joined with, and the ideographic space.
SPACE == -1
IDEOGRAPHIC_SPACE == -2

Pow2(n) == 2 ^ n

IsWhitespace(c) == c < 0

(***************************************************************************)
(* Results.                                                                *)
(***************************************************************************)
Unit == <<>>
Ok(v) == [tag |-> "Ok", val |-> v]
Err(k, a) == [tag |-> "Err", kind |-> k, arg |-> a]
Panic == [tag |-> "Panic"]
IsOk(r) == r.tag = "Ok"
IsErr(r, k) == r.tag = "Err" /\ r.kind = k
None == -1

(***************************************************************************)
(* enum Language, in declaration order, and Language::all() for a build    *)
(* with the optional languages `features` compiled in.                     *)
(***************************************************************************)
Language ==
    << "English", "SimplifiedChinese", "TraditionalChinese", "Czech", "French",
       "Italian", "Japanese", "Korean", "Spanish" >>

OptionalLanguages == { Language[i] : i \in 2..Len(Language) }

all(compiled) ==
    SelectSeq(Language, LAMBDA l : l = "English" \/ l \in compiled)

\* Whether the language's words occur in no other language's list.
unique_words(l) == l \in { "Czech", "Italian", "Japanese", "Korean", "Spanish" }

(***************************************************************************)
(* The static word tables (generated data): per language the sorted words  *)
(* ord_words, the canonical index word_idx of each sorted position and its *)
(* inverse rev_idx.  Lists of one family occupy one range of spellings;    *)
(* English/French and the two Chinese lists share words, the unique-word   *)
(* languages share none.  Canonical order differs from sorted order except *)
(* for English.                                                            *)
(***************************************************************************)
WordGap == 4
FamilyBase(l) ==
    CASE l \in { "English", "French" } -> 0
      [] l \in { "SimplifiedChinese", "TraditionalChinese" } -> 10000
      [] l = "Czech" -> 20000
      [] l = "Italian" -> 30000
      [] l = "Japanese" -> 40000
      [] l = "Korean" -> 50000
      [] l = "Spanish" -> 60000

\* 1 where the list spells the word at this sorted position its own way.
OwnSpelling(l, pos) ==
    CASE l = "French" -> IF pos % 8 = 0 THEN 0 ELSE 1
      [] l = "TraditionalChinese" -> IF pos % 4 = 3 THEN 1 ELSE 0
      [] OTHER -> 0

ord_words(l, pos) == FamilyBase(l) + WordGap * pos + OwnSpelling(l, pos)

\* word_idx[pos] = (a * pos + b) mod 2048 with a odd; rev_idx is its inverse.
PermA(l) ==
    CASE l = "English" -> 1
      [] l \in { "SimplifiedChinese", "TraditionalChinese" } -> 5
      [] l = "French" -> 3
      [] OTHER -> 7
PermAInv(l) ==
    CASE l = "English" -> 1
      [] l \in { "SimplifiedChinese", "TraditionalChinese" } -> 1229
      [] l = "French" -> 683
      [] OTHER -> 1463
PermB(l) ==
    CASE l = "English" -> 0
      [] l \in { "SimplifiedChinese", "TraditionalChinese" } -> 0
      [] l = "French" -> 2
      [] OTHER -> 9

word_idx(l, pos) == (PermA(l) * pos + PermB(l)) % TableSize
rev_idx(l, idx) == (PermAInv(l) * (idx + TableSize - PermB(l))) % TableSize

(***************************************************************************)
(* WordMap (language/mod.rs).                                              *)
(***************************************************************************)
\* <[&str]>::binary_search over ord_words[lo..hi): the position, or None.
RECURSIVE binary_search(_, _, _, _)
binary_search(l, word, lo, hi) ==
    IF lo >= hi THEN None
    ELSE LET mid == lo + (hi - lo) \div 2
             w == ord_words(l, mid)
         IN IF w = word THEN mid
            ELSE IF w < word THEN binary_search(l, word, mid + 1, hi)
            ELSE binary_search(l, word, lo, mid)

\* WordMap::word_to_idx; `word` is one token.
word_to_idx_SortedPos(l, word) == binary_search(l, word, 0, TableSize)
word_to_idx(l, word) ==
    LET pos == binary_search(l, word, 0, TableSize)
    IN IF pos = None THEN None ELSE word_idx(l, pos)

\* WordMap::idx_to_word.
idx_to_word(l, idx) == ord_words(l, rev_idx(l, idx))

\* Language::find_word on a word of a text (a run of tokens): only a run of
\* one token can be an exact match of a table word.
find_word(l, word) ==
    IF Len(word) = 1 THEN word_to_idx(l, word[1]) ELSE None

\* Language::word_list()[idx], as a word of a text.
word_list(l, idx) == << idx_to_word(l, idx) >>

\* The letters of a table word (its spelling): the base-four digits of a
\* number that grows with its place in the family, most significant first,
\* without the trailing zeros, so that words differ in length, some words
\* start other words and the order of the spellings is the order of the
\* tokens.
SpellWidth == 7
RECURSIVE Trim(_, _)
Trim(digits, n) ==
    IF n > 0 /\ digits[n] = 0 THEN Trim(digits, n - 1) ELSE SubSeq(digits, 1, n)
spelling(word) ==
    LET place == word % 10000
        v == place + (place \div 4) + 1
        digits == SubSeq([k \in 1..SpellWidth |-> (v \div (4 ^ (SpellWidth - k))) % 4],
                         1, SpellWidth)
    IN Trim(digits, SpellWidth)

\* str::starts_with
starts_with(w, prefix) ==
    Len(prefix) <= Len(w) /\ SubSeq(w, 1, Len(prefix)) = prefix

\* WordMap::words_by_prefix (language/mod.rs 45-55): the slice
\* ord_words[first..first + count].
words_by_prefix_FromFirstWord(l, prefix) ==
    LET Hit(pos) == starts_with(spelling(ord_words(l, pos)), prefix)
        misses == { pos \in 0..(TableSize - 1) : ~Hit(pos) }
        count == IF misses = {} THEN TableSize
                 ELSE CHOOSE pos \in misses : \A q \in misses : pos <= q
    IN SubSeq([k \in 1..count |-> ord_words(l, k - 1)], 1, count)
words_by_prefix(l, prefix) ==
    LET Hit(pos) == starts_with(spelling(ord_words(l, pos)), prefix)
        hits == { pos \in 0..(TableSize - 1) : Hit(pos) }
    IN IF hits = {} THEN << >>
       ELSE LET first == CHOOSE pos \in hits : \A q \in hits : pos <= q
                misses == { pos \in first..(TableSize - 1) : pos \notin hits }
                count == IF misses = {} THEN TableSize - first
                         ELSE (CHOOSE pos \in misses : \A q \in misses : pos <= q) - first
            IN SubSeq([k \in 1..count |-> ord_words(l, first + k - 1)], 1, count)

(***************************************************************************)
(* State.  features and digestKey are fixed by the build and the hash; the *)
(* other variables are the arguments, the value held and the outcome of    *)
(* the calls a client makes.                                               *)
(***************************************************************************)
VARIABLES
    features,   \* the optional languages compiled in
    digestKey,  \* which member of the digest family stands for SHA-256
    language,   \* the `language` argument of the *_in functions
    entropy,    \* the `entropy` argument: a sequence of bytes
    text,       \* the `s` argument: a text
    orig,       \* the accepted text `text` was made from by replacing a word
    mnemonic,   \* the Mnemonic value the client holds (its text), or NoMnemonic
    madeBy,     \* the constructor that returned `mnemonic`
    op,         \* the last call made
    result,     \* what it returned
    args         \* the arguments of the last to_seed, pbkdf2 or WordMap call

vars ==
    << features, digestKey, language, entropy, text, orig, mnemonic, madeBy, op, result,
       args >>

NoMnemonic == << SPACE >>

(***************************************************************************)
(* Text primitives of std and unicode_normalization.                       *)
(***************************************************************************)
\* str::split_whitespace: the maximal runs of non-white-space tokens.
\* The runs of s[lo..hi]: those of its two halves, the last of the first
\* half and the first of the second being one run when no white space
\* separates them.
RECURSIVE SplitRange(_, _, _)
SplitRange(s, lo, hi) ==
    IF lo = hi THEN (IF IsWhitespace(s[lo]) THEN << >> ELSE << << s[lo] >> >>)
    ELSE LET mid == (lo + hi) \div 2
             left == SplitRange(s, lo, mid)
             right == SplitRange(s, mid + 1, hi)
         IN IF IsWhitespace(s[mid]) \/ IsWhitespace(s[mid + 1])
            THEN left \o right
            ELSE SubSeq(left, 1, Len(left) - 1)
                   \o << left[Len(left)] \o right[1] >>
                   \o Tail(right)
split_whitespace(s) == IF s = << >> THEN << >> ELSE SplitRange(s, 1, Len(s))

\* [&str]::join(sep).
RECURSIVE JoinRange(_, _, _, _)
JoinRange(words, sep, lo, hi) ==
    IF lo = hi THEN words[lo]
    ELSE LET mid == (lo + hi) \div 2
         IN (JoinRange(words, sep, lo, mid) \o << sep >>)
               \o JoinRange(words, sep, mid + 1, hi)
join(words, sep) == IF Len(words) = 0 THEN << >> ELSE JoinRange(words, sep, 1, Len(words))

\* A token at or above 1000000 is the composed (non-NFKD) spelling of the
\* piece 1000000 below it; the ideographic space decomposes to the space.
nfkd_char(c) ==
    IF c = IDEOGRAPHIC_SPACE THEN SPACE
    ELSE IF c >= 1000000 THEN c - 1000000
    ELSE c
nfkd(s) == [i \in 1..Len(s) |-> nfkd_char(s[i])]
is_nfkd_quick(s) == \A i \in 1..Len(s) : nfkd_char(s[i]) = s[i]

\* Mnemonic::normalize_utf8_cow.
normalize_utf8_cow(cow) == IF ~is_nfkd_quick(cow) THEN nfkd(cow) ELSE cow

(***************************************************************************)
(* sha256::Hash::hash (bitcoin_hashes): a deterministic digest of 32       *)
(* bytes.  The codec reads nothing but its leading bits, so the model uses *)
(* a family of mixing functions indexed by digestKey; every claim is       *)
(* checked for each member.                                                *)
(***************************************************************************)
RECURSIVE SumOver(_, _, _)
\* sum of f[i] for i in lo..hi
SumOver(f, lo, hi) ==
    IF lo > hi THEN 0
    ELSE IF lo = hi THEN f[lo]
    ELSE LET mid == (lo + hi) \div 2
         IN SumOver(f, lo, mid) + SumOver(f, mid + 1, hi)

\* What the digest absorbs of the data: every byte with its position.
Absorb(data) ==
    (7 + Len(data)
       + SumOver([i \in 1..Len(data) |-> (data[i] + 1 + digestKey) * (i * i + i + 1)],
                 1, Len(data))) % 65521
sha256(data) ==
    LET acc == Absorb(data)
    IN [i \in 0..(DigestLen - 1) |-> ((acc \div 13) + (acc + 1) * (2 * i + 1)) % 256]

\* (x & (1 << k)) > 0
BitSet(x, k) == (x \div Pow2(k)) % 2 = 1

(***************************************************************************)
(* Mnemonic::from_entropy_in (lib.rs 124-156).                             *)
(***************************************************************************)
\* EncodeWords reading each entropy byte least significant bit first.
EncodeWords_LsbFirst(lang, ent) ==
    LET check == sha256(ent)
        n == Len(ent)
        bits == [k \in 0..(n * 8 + n \div 4 - 1) |->
                   IF k < n * 8
                   THEN BitSet(ent[k \div 8 + 1], k % 8)
                   ELSE LET i == k - 8 * n
                        IN BitSet(check[i \div 8], 7 - (i % 8))]
        mlen == (n * 3) \div 4
        idx(i) == SumOver([j \in 0..(IndexBits - 1) |->
                             IF bits[i * IndexBits + j] THEN Pow2(10 - j) ELSE 0],
                          0, IndexBits - 1)
    IN [i \in 1..mlen |-> word_list(lang, idx(i - 1))]

\* The words of lib.rs 133-153: the entropy's bits followed by the leading
\* bits of its hash, cut into indices of IndexBits bits.
EncodeWords(lang, ent) ==
    LET check == sha256(ent)
        n == Len(ent)
        bits == [k \in 0..(n * 8 + n \div 4 - 1) |->
                   IF k < n * 8
                   THEN BitSet(ent[k \div 8 + 1], 7 - (k % 8))
                   ELSE LET i == k - 8 * n
                        IN BitSet(check[i \div 8], 7 - (i % 8))]
        mlen == (n * 3) \div 4
        idx(i) == SumOver([j \in 0..(IndexBits - 1) |->
                             IF bits[i * IndexBits + j] THEN Pow2(10 - j) ELSE 0],
                          0, IndexBits - 1)
    IN [i \in 1..mlen |-> word_list(lang, idx(i - 1))]

\* from_entropy_in without the check of lib.rs 125-127.
from_entropy_in_AnyByteCount(lang, ent) ==
    IF Len(ent) * 8 < MinEntropyBits \/ Len(ent) * 8 > MaxEntropyBits
    THEN Err("BadEntropyBitCount", Len(ent) * 8)
    ELSE Ok(join(EncodeWords(lang, ent), SPACE))

\* from_entropy_in joining the words with the ideographic space.
from_entropy_in_IdeographicJoin(lang, ent) ==
    IF Len(ent) % 4 # 0 THEN Err("BadEntropyBitCount", Len(ent) * 8)
    ELSE IF Len(ent) * 8 < MinEntropyBits \/ Len(ent) * 8 > MaxEntropyBits
    THEN Err("BadEntropyBitCount", Len(ent) * 8)
    ELSE Ok(join(EncodeWords(lang, ent), IDEOGRAPHIC_SPACE))

from_entropy_in(lang, ent) ==
    IF Len(ent) % 4 # 0 THEN Err("BadEntropyBitCount", Len(ent) * 8)
    ELSE IF Len(ent) * 8 < MinEntropyBits \/ Len(ent) * 8 > MaxEntropyBits
    THEN Err("BadEntropyBitCount", Len(ent) * 8)
    ELSE Ok(join(EncodeWords(lang, ent), SPACE))

(***************************************************************************)
(* Mnemonic::generate_in (lib.rs 164-177, feature rand).  `fill` is what   *)
(* the random number generator writes: byte i is fill[1] + i * fill[2].    *)
(***************************************************************************)
fill_bytes(n, fill) == SubSeq([i \in 1..n |-> (fill[1] + (i - 1) * fill[2]) % 256], 1, n)

generate_in(lang, word_count, fill) ==
    IF word_count < MinWords \/ word_count % WordStep # 0 \/ word_count > MaxWords
    THEN Err("BadWordCount", word_count)
    ELSE LET entropy_bytes == (word_count \div 3) * 4
             filled == fill_bytes(entropy_bytes, fill)
         IN from_entropy_in(lang, filled)

(***************************************************************************)
(* Mnemonic::validate_in (lib.rs 187-220).                                 *)
(***************************************************************************)
\* The last position whose index is None, or 0.
FirstUnknown_Last(idxs) ==
    LET unknown == { i \in 1..Len(idxs) : idxs[i] = None }
    IN IF unknown = {} THEN 0
       ELSE CHOOSE i \in unknown : \A j \in unknown : i >= j
\* The first position whose index is None, or 0.
FirstUnknown(idxs) ==
    LET unknown == { i \in 1..Len(idxs) : idxs[i] = None }
    IN IF unknown = {} THEN 0
       ELSE CHOOSE i \in unknown : \A j \in unknown : i <= j

\* The words' indices (None for a word not in the table).
WordIndices(lang, words) ==
    SubSeq([i \in 1..Len(words) |-> find_word(lang, words[i])], 1, Len(words))

\* The bit vector validate_in fills from the words' indices.
IndexBitsOf(idxs) ==
    [k \in 0..(Len(idxs) * IndexBits - 1) |->
        (idxs[k \div IndexBits + 1] \div Pow2(10 - (k % IndexBits))) % 2 = 1]

\* The candidate entropy bytes validate_in rebuilds from the bit vector.
BitsEntropy(bits, nbits) ==
    [i \in 1..((nbits \div 33) * 4) |->
        SumOver([j \in 0..(ByteBits - 1) |->
                    IF bits[(i - 1) * 8 + j] THEN Pow2(7 - j) ELSE 0],
                0, ByteBits - 1)]

\* VerifyChecksum comparing the first checksum bit only.
VerifyChecksum_FirstBit(idxs) ==
    LET bits == IndexBitsOf(idxs)
        ent == BitsEntropy(bits, Len(idxs) * IndexBits)
        check == sha256(ent)
        elen == Len(ent)
    IN IF bits[8 * elen] # BitSet(check[0], 7)
       THEN Err("InvalidChecksum", Unit)
       ELSE Ok(Unit)
\* The check of lib.rs 205-218 on the indices of a text whose words are all
\* in the table.
VerifyChecksum(idxs) ==
    LET bits == IndexBitsOf(idxs)
        ent == BitsEntropy(bits, Len(idxs) * IndexBits)
        check == sha256(ent)
        elen == Len(ent)
    IN IF \E i \in 0..(elen \div 4 - 1) :
             bits[8 * elen + i] # BitSet(check[i \div 8], 7 - (i % 8))
       THEN Err("InvalidChecksum", Unit)
       ELSE Ok(Unit)

\* validate_in looking the words up before it counts them.
validate_in_LookupFirst(lang, s) ==
    LET words == split_whitespace(s)
        n == Len(words)
        idxs == WordIndices(lang, words)
        u == FirstUnknown(idxs)
    IN IF u # 0 THEN Err("UnknownWord", words[u])
       ELSE IF n < MinWords \/ n % WordStep # 0 \/ n > MaxWords
       THEN Err("BadWordCount", n)
       ELSE VerifyChecksum(idxs)

\* validate_in without the check of lib.rs 205-218.
validate_in_NoChecksum(lang, s) ==
    LET words == split_whitespace(s)
        n == Len(words)
    IN IF n < MinWords \/ n % WordStep # 0 \/ n > MaxWords
       THEN Err("BadWordCount", n)
       ELSE LET idxs == WordIndices(lang, words)
                u == FirstUnknown(idxs)
            IN IF u # 0 THEN Err("UnknownWord", words[u]) ELSE Ok(Unit)

validate_in(lang, s) ==
    LET words == split_whitespace(s)
        n == Len(words)
    IN IF n < MinWords \/ n % WordStep # 0 \/ n > MaxWords
       THEN Err("BadWordCount", n)
       ELSE LET idxs == WordIndices(lang, words)
                u == FirstUnknown(idxs)
            IN IF u # 0 THEN Err("UnknownWord", words[u])
               ELSE VerifyChecksum(idxs)

(***************************************************************************)
(* Mnemonic::language_of (lib.rs 228-259).  The value is the function's    *)
(* result together with `looked`, the number of words the elimination loop *)
(* had taken from the text when it returned.                               *)
(***************************************************************************)
\* The loop of lib.rs 245-257 reporting, when the words run out, the
\* candidates it started from in place of the ones it retained.
RECURSIVE Eliminate_ReportsAll(_, _, _, _)
Eliminate_ReportsAll(words, i, langs, start) ==
    IF i > Len(words) THEN [res |-> Err("AmbiguousWordList", start), looked |-> i - 1]
    ELSE LET kept == SelectSeq(langs, LAMBDA l : find_word(l, words[i]) # None)
         IN IF Len(kept) = 1 THEN [res |-> Ok(kept[1]), looked |-> i]
            ELSE IF kept = << >> THEN [res |-> Err("UnknownWord", words[i]), looked |-> i]
            ELSE Eliminate_ReportsAll(words, i + 1, kept, start)

Eliminate_ReportsStart(words, i, langs) == Eliminate_ReportsAll(words, i, langs, langs)

\* The loop of lib.rs 245-257 deciding only when the words have run out.
RECURSIVE Eliminate_DecidesLast(_, _, _)
Eliminate_DecidesLast(words, i, langs) ==
    IF i > Len(words)
    THEN IF Len(langs) = 1 THEN [res |-> Ok(langs[1]), looked |-> i - 1]
         ELSE [res |-> Err("AmbiguousWordList", langs), looked |-> i - 1]
    ELSE LET kept == SelectSeq(langs, LAMBDA l : find_word(l, words[i]) # None)
         IN IF kept = << >> THEN [res |-> Err("UnknownWord", words[i]), looked |-> i]
            ELSE Eliminate_DecidesLast(words, i + 1, kept)

\* The loop of lib.rs 245-257 returning the first candidate left when the
\* words run out.
RECURSIVE Eliminate_FirstKept(_, _, _)
Eliminate_FirstKept(words, i, langs) ==
    IF i > Len(words) THEN [res |-> Ok(langs[1]), looked |-> i - 1]
    ELSE LET kept == SelectSeq(langs, LAMBDA l : find_word(l, words[i]) # None)
         IN IF Len(kept) = 1 THEN [res |-> Ok(kept[1]), looked |-> i]
            ELSE IF kept = << >> THEN [res |-> Err("UnknownWord", words[i]), looked |-> i]
            ELSE Eliminate_FirstKept(words, i + 1, kept)

\* The loop of lib.rs 245-257 from word i on, with candidates langs.
RECURSIVE Eliminate(_, _, _)
Eliminate(words, i, langs) ==
    IF i > Len(words) THEN [res |-> Err("AmbiguousWordList", langs), looked |-> i - 1]
    ELSE LET kept == SelectSeq(langs, LAMBDA l : find_word(l, words[i]) # None)
         IN IF Len(kept) = 1 THEN [res |-> Ok(kept[1]), looked |-> i]
            ELSE IF kept = << >> THEN [res |-> Err("UnknownWord", words[i]), looked |-> i]
            ELSE Eliminate(words, i + 1, kept)

\* language_of without the loop of lib.rs 234-238.
language_of_run_NoFastPath(s) ==
    LET words == split_whitespace(s)
    IN IF words = << >> THEN [res |-> Panic, looked |-> 0]
       ELSE IF Len(words[1]) = 0 THEN [res |-> Err("BadWordCount", 0), looked |-> 0]
       ELSE Eliminate(words, 1, SelectSeq(all(features), LAMBDA l : ~unique_words(l)))

language_of_run(s) ==
    LET words == split_whitespace(s)
    IN IF words = << >> THEN [res |-> Panic, looked |-> 0]
       ELSE LET first_word == words[1]
                uniq == SelectSeq(all(features), LAMBDA l : unique_words(l))
                hit == SelectSeq(uniq, LAMBDA l : find_word(l, first_word) # None)
            IN IF Len(first_word) = 0 THEN [res |-> Err("BadWordCount", 0), looked |-> 0]
               ELSE IF hit # << >> THEN [res |-> Ok(hit[1]), looked |-> 0]
               ELSE Eliminate(words, 1,
                              SelectSeq(all(features), LAMBDA l : ~unique_words(l)))

language_of(s) == language_of_run(s).res

(***************************************************************************)
(* Mnemonic::parse and Mnemonic::parse_in (lib.rs 262-276).                *)
(***************************************************************************)
parse(s) ==
    LET cow == normalize_utf8_cow(s)
        lang == language_of(cow)
    IN IF ~IsOk(lang) THEN lang
       ELSE LET v == validate_in(lang.val, cow)
            IN IF ~IsOk(v) THEN v ELSE Ok(cow)

parse_in(lang, s) ==
    LET cow == normalize_utf8_cow(s)
        v == validate_in(lang, cow)
    IN IF ~IsOk(v) THEN v ELSE Ok(cow)

(***************************************************************************)
(* Mnemonic::to_entropy (lib.rs 314-347).                                  *)
(***************************************************************************)
\* A u32 is the sequence of its 32 bits, bit k (k = 0 the least
\* significant) at position k + 1.
Bits32(f) == SubSeq([p \in 1..RemainderBits |-> f[p - 1]], 1, RemainderBits)
U32Zero == Bits32([k \in 0..(RemainderBits - 1) |-> FALSE])
\* idx as u32
AsU32(n) == Bits32([k \in 0..(RemainderBits - 1) |-> k < IndexBits /\ BitSet(n, k)])
\* x << s and x >> s on u32: the bits shifted out are lost
Shl(x, s) == Bits32([k \in 0..(RemainderBits - 1) |-> k >= s /\ x[k - s + 1]])
Shr(x, s) ==
    Bits32([k \in 0..(RemainderBits - 1) |-> k + s < RemainderBits /\ x[k + s + 1]])
\* x | y
BitOr(x, y) == Bits32([k \in 0..(RemainderBits - 1) |-> x[k + 1] \/ y[k + 1]])
\* x as u8
AsU8(x) == SumOver([k \in 0..(ByteBits - 1) |-> IF x[k + 1] THEN Pow2(k) ELSE 0],
                   0, ByteBits - 1)

\* The while loop of lib.rs 332-336 leaving a whole byte pending.
RECURSIVE Drain_Late(_)
Drain_Late(acc) ==
    IF acc.offset > 8
    THEN Drain_Late([entropy |-> Append(acc.entropy, AsU8(Shr(acc.remainder, 24))),
                     remainder |-> Shl(acc.remainder, 8),
                     offset |-> acc.offset - 8])
    ELSE acc
\* The while loop of lib.rs 332-336.
RECURSIVE Drain(_)
Drain(acc) ==
    IF acc.offset >= 8
    THEN Drain([entropy |-> Append(acc.entropy, AsU8(Shr(acc.remainder, 24))),
                remainder |-> Shl(acc.remainder, 8),
                offset |-> acc.offset - 8])
    ELSE acc

\* One word of the for loop of lib.rs 326-337.
PushWord(acc, idx) ==
    Drain([entropy |-> acc.entropy,
           remainder |-> BitOr(acc.remainder,
                               Shr(Shl(AsU32(idx), RemainderBits - IndexBits),
                                   acc.offset)),
           offset |-> acc.offset + IndexBits])

\* The for loop of lib.rs 326-337 from word i on; Panic when find_word's
\* unwrap fails.
RECURSIVE Accumulate(_, _, _, _)
Accumulate(lang, words, i, acc) ==
    IF i > Len(words) THEN acc
    ELSE LET idx == find_word(lang, words[i])
             pushed == IF idx = None THEN Panic ELSE PushWord(acc, idx)
         IN IF pushed = Panic THEN Panic
            ELSE Accumulate(lang, words, i + 1, pushed)

to_entropy(self) ==
    LET lang == language_of(self)
    IN IF ~IsOk(lang) THEN Panic
       ELSE LET words == split_whitespace(self)
                acc == Accumulate(lang.val, words, 1,
                                  [entropy |-> << >>, remainder |-> U32Zero, offset |-> 0])
            IN IF acc = Panic THEN Panic
               ELSE LET full == IF acc.offset # 0
                                THEN Append(acc.entropy, AsU8(Shr(acc.remainder, 24)))
                                ELSE acc.entropy
                        entropy_bytes == (Len(words) \div 3) * 4
                    IN Ok(SubSeq(full, 1, IF entropy_bytes < Len(full)
                                          THEN entropy_bytes ELSE Len(full)))

(***************************************************************************)
(* pbkdf2 (pbkdf2.rs).  hmac::Hmac<sha512::Hash> of bitcoin_hashes is a    *)
(* deterministic function from a key and a message to HashLen bytes; the   *)
(* model uses a mixing function of the family digestKey indexes.           *)
(***************************************************************************)
HashLen == 64

\* What the MAC absorbs of a byte string: every byte with its position.
MacAbsorb(data) ==
    SumOver([i \in 1..Len(data) |->
                (((data[i] % 65521) + 1 + digestKey) * (i * i + i + 1)) % 65521],
            1, Len(data)) % 65521

\* hmac::HmacEngine::new(key): the engine keyed once (pbkdf2.rs 25) and
\* cloned for every MAC.
HmacEngine(key) == MacAbsorb(key)

\* prf.clone(), input(data), Hmac::from_engine
hmac(prf, data) ==
    LET a == (prf * 251 + MacAbsorb(data) + Len(data)) % 65521
    IN SubSeq([i \in 1..HashLen |-> ((a \div 7) + (a + 3) * (2 * i + 1)) % 256],
              1, HashLen)

\* u32_to_array_be (pbkdf2.rs 6-14).
u32_to_array_be(val) ==
    SubSeq([k \in 1..4 |-> (val \div Pow2((4 - (k - 1) - 1) * 8)) % 256], 1, 4)

\* a ^ b on half bytes: row a + 1, column b + 1
XorNibble ==
    << << 0, 1, 2, 3, 4, 5, 6, 7, 8, 9, 10, 11, 12, 13, 14, 15 >>,
       << 1, 0, 3, 2, 5, 4, 7, 6, 9, 8, 11, 10, 13, 12, 15, 14 >>,
       << 2, 3, 0, 1, 6, 7, 4, 5, 10, 11, 8, 9, 14, 15, 12, 13 >>,
       << 3, 2, 1, 0, 7, 6, 5, 4, 11, 10, 9, 8, 15, 14, 13, 12 >>,
       << 4, 5, 6, 7, 0, 1, 2, 3, 12, 13, 14, 15, 8, 9, 10, 11 >>,
       << 5, 4, 7, 6, 1, 0, 3, 2, 13, 12, 15, 14, 9, 8, 11, 10 >>,
       << 6, 7, 4, 5, 2, 3, 0, 1, 14, 15, 12, 13, 10, 11, 8, 9 >>,
       << 7, 6, 5, 4, 3, 2, 1, 0, 15, 14, 13, 12, 11, 10, 9, 8 >>,
       << 8, 9, 10, 11, 12, 13, 14, 15, 0, 1, 2, 3, 4, 5, 6, 7 >>,
       << 9, 8, 11, 10, 13, 12, 15, 14, 1, 0, 3, 2, 5, 4, 7, 6 >>,
       << 10, 11, 8, 9, 14, 15, 12, 13, 2, 3, 0, 1, 6, 7, 4, 5 >>,
       << 11, 10, 9, 8, 15, 14, 13, 12, 3, 2, 1, 0, 7, 6, 5, 4 >>,
       << 12, 13, 14, 15, 8, 9, 10, 11, 4, 5, 6, 7, 0, 1, 2, 3 >>,
       << 13, 12, 15, 14, 9, 8, 11, 10, 5, 4, 7, 6, 1, 0, 3, 2 >>,
       << 14, 15, 12, 13, 10, 11, 8, 9, 6, 7, 4, 5, 2, 3, 0, 1 >>,
       << 15, 14, 13, 12, 11, 10, 9, 8, 7, 6, 5, 4, 3, 2, 1, 0 >> >>

\* a ^ b on bytes
XorByte(a, b) ==
    16 * XorNibble[(a \div 16) + 1][(b \div 16) + 1] + XorNibble[(a % 16) + 1][(b % 16) + 1]

\* xor (pbkdf2.rs 17-21): res ^= salt over the zip of the two.
xor(res, salt) ==
    SubSeq([k \in 1..Len(res) |->
               IF k <= Len(salt) THEN XorByte(res[k], salt[k]) ELSE res[k]],
           1, Len(res))

\* One turn of the loop of pbkdf2.rs 40-46.
Round(prf, st) ==
    LET salt == hmac(prf, st.salt)
    IN [chunk |-> xor(st.chunk, salt), salt |-> salt]

\* k turns of the loop of pbkdf2.rs 40-46.
RECURSIVE Rounds(_, _, _)
Rounds(prf, k, st) ==
    IF k <= 0 THEN st
    ELSE IF k = 1 THEN Round(prf, st)
    ELSE LET half == Rounds(prf, k \div 2, st)
         IN IF Len(half.salt) = HashLen
            THEN Rounds(prf, k - k \div 2, half)
            ELSE half

\* The body of the loop of pbkdf2.rs 27-47 for chunk i (from 0), `chunk`
\* being what the chunk held before.
Chunk_NoZero(prf, salt, c, i, chunk) ==
    LET first == hmac(prf, salt \o u32_to_array_be(i + 1))
    IN Rounds(prf, c - 1, [chunk |-> xor(chunk, first), salt |-> first]).chunk
Chunk(prf, salt, c, i, chunk) ==
    LET zeroed == SubSeq([k \in 1..Len(chunk) |-> 0], 1, Len(chunk))
        first == hmac(prf, salt \o u32_to_array_be(i + 1))
    IN Rounds(prf, c - 1, [chunk |-> xor(zeroed, first), salt |-> first]).chunk

\* pbkdf2 (pbkdf2.rs 24-48): res after the call.
pbkdf2(passphrase, salt, c, res) ==
    LET prf == HmacEngine(passphrase)
        len == Len(res)
        nchunks == (len + HashLen - 1) \div HashLen
        chunks_mut(i) == SubSeq(res, i * HashLen + 1,
                                IF (i + 1) * HashLen <= len THEN (i + 1) * HashLen ELSE len)
        chunks == SubSeq([i \in 1..nchunks |->
                             Chunk(prf, salt, c, i - 1, chunks_mut(i - 1))],
                         1, nchunks)
    IN SubSeq([k \in 1..len |-> chunks[(k - 1) \div HashLen + 1][((k - 1) % HashLen) + 1]],
              1, len)

(***************************************************************************)
(* Mnemonic::to_seed (lib.rs 289-311).                                     *)
(***************************************************************************)
PBKDF2_ROUNDS == 2048
PBKDF2_BYTES == 64

\* The text "mnemonic".
MnemonicPrefix == << 109, 110, 101, 109, 111, 110, 105, 99 >>

\* str::as_bytes: the text's own bytes.
as_bytes(s) == s

to_seed_RawPassphrase(self, passphrase) ==
    LET normalized_mnemonic_cow == normalize_utf8_cow(self)
        seed == SubSeq([k \in 1..PBKDF2_BYTES |-> 0], 1, PBKDF2_BYTES)
    IN pbkdf2(as_bytes(normalized_mnemonic_cow), as_bytes(MnemonicPrefix \o passphrase),
              PBKDF2_ROUNDS, seed)
to_seed(self, passphrase) ==
    LET normalized_salt_cow == normalize_utf8_cow(MnemonicPrefix \o passphrase)
        normalized_mnemonic_cow == normalize_utf8_cow(self)
        seed == SubSeq([k \in 1..PBKDF2_BYTES |-> 0], 1, PBKDF2_BYTES)
    IN pbkdf2(as_bytes(normalized_mnemonic_cow), as_bytes(normalized_salt_cow),
              PBKDF2_ROUNDS, seed)

(***************************************************************************)
(* The inputs the calls are made with.                                     *)
(***************************************************************************)
MaxEntropyLen == 36
MaxTextWords == 25
MaxShort == 3
MaxDelta == 16
MaxGenWords == 25

\* Builds: English alone, and with optional languages.
BuildConfigs ==
    { {}, { "French", "Japanese" },
      { "SimplifiedChinese", "TraditionalChinese", "Czech" },
      OptionalLanguages }
DigestKeys == { 0, 5 }

Compiled == { l \in OptionalLanguages \cup { "English" } :
                l = "English" \/ l \in features }

\* n bytes b, b + k, b + 2k, ...
EntropyOf(n, b, k) == [i \in 1..n |-> (b + (i - 1) * k) % 256]
EntropyPatterns == { << 0, 0 >>, << 128, 0 >>, << 255, 0 >>, << 1, 7 >> }
\* Every length with one pattern, the accepted lengths with each pattern.
AcceptedLen(n) ==
    n % 4 = 0 /\ n * 8 >= MinEntropyBits /\ n * 8 <= MaxEntropyBits
InputEntropies ==
    { EntropyOf(n, 0, 0) : n \in 0..MaxEntropyLen }
        \cup { EntropyOf(n, p[1], p[2]) :
                  n \in { k \in 0..MaxEntropyLen : AcceptedLen(k) }, p \in EntropyPatterns }

\* Spellings: shared by English and French, English only, French only,
\* shared by the Chinese lists, Japanese, and in no list.
UnknownWord == 3
SampleWords == { 0, 4, 5, 10000, 40000, UnknownWord }

RECURSIVE SeqsUpTo(_, _)
SeqsUpTo(S, n) ==
    IF n = 0 THEN { << >> }
    ELSE LET shorter == SeqsUpTo(S, n - 1)
         IN shorter \cup { Append(q, x) : q \in shorter, x \in S }

AsWords(q) == [i \in 1..Len(q) |-> << q[i] >>]

\* Texts of one to MaxShort sample words.
ShortTexts ==
    { join(AsWords(q), SPACE) : q \in SeqsUpTo(SampleWords, MaxShort) \ { << >> } }

\* Texts without a word: empty, or white space only.
BlankTexts == { << >>, << SPACE >>, << IDEOGRAPHIC_SPACE, SPACE >> }

\* Texts of n words a b a b ...
Alternate(a, b, n) ==
    join([i \in 1..n |-> IF i % 2 = 1 THEN << a >> ELSE << b >>], SPACE)
GatePairs == { << 4, UnknownWord >>, << 0, 0 >> }
GateTexts ==
    { Alternate(p[1], p[2], n) : p \in GatePairs, n \in 1..MaxTextWords }

\* Six words of language l: five times its word 0, then its word c.
SixTexts(l) ==
    { join([i \in 1..6 |-> word_list(l, IF i < 6 THEN 0 ELSE c)], SPACE) : c \in 0..3 }

\* Twelve words of language l that validate_in accepts, given with a
\* leading space, with a trailing space, with the ideographic space between
\* the words, and as they are.
SpacedTexts(l) ==
    LET m == from_entropy_in(l, EntropyOf(16, 1, 7)).val
    IN { << SPACE >> \o m, m \o << SPACE >>,
         join(split_whitespace(m), IDEOGRAPHIC_SPACE), m }

Constructors == { "from_entropy_in", "parse_in", "parse" }
Holding == mnemonic # NoMnemonic /\ op \in Constructors

\* The texts a call can be given in this state: an input text at the
\* start, the as_str() of the Mnemonic from_entropy_in just returned.
ArgTexts(inputs) ==
    IF op = "init" THEN inputs
    ELSE IF Holding /\ op = "from_entropy_in" THEN { mnemonic }
    ELSE {}
ArgLanguages == IF op = "init" THEN Compiled ELSE { language }

NoResult == [tag |-> "None"]
NoArgs == [call |-> "none"]

Init ==
    /\ features \in BuildConfigs
    /\ digestKey \in DigestKeys
    /\ language = "English"
    /\ entropy = << >>
    /\ text = << >>
    /\ orig = << >>
    /\ mnemonic = NoMnemonic
    /\ madeBy = "none"
    /\ op = "init"
    /\ result = NoResult
    /\ args = NoArgs

\* What a constructor's result leaves the client holding.
Held(r) == IF IsOk(r) THEN r.val ELSE NoMnemonic

FromEntropyIn ==
    /\ op = "init"
    /\ \E l \in Compiled, e \in InputEntropies :
         LET r == from_entropy_in(l, e)
         IN /\ language' = l
            /\ entropy' = e
            /\ result' = r
            /\ mnemonic' = Held(r)
    /\ madeBy' = "from_entropy_in"
    /\ op' = "from_entropy_in"
    /\ UNCHANGED << args, features, digestKey, text, orig >>

ValidateInOn(l, s) ==
    /\ language' = l
    /\ text' = s
    /\ result' = validate_in(l, s)
    /\ op' = "validate_in"
    /\ UNCHANGED << args, features, digestKey, entropy, orig, mnemonic, madeBy >>

ValidateIn ==
    \E l \in ArgLanguages :
       \/ \E s \in ArgTexts(GateTexts \cup SixTexts(l)) : ValidateInOn(l, s)
       \/ op = "init" /\ \E s \in BlankTexts : ValidateInOn(l, s)

ParseInOn(l, s) ==
    LET r == parse_in(l, s)
    IN /\ language' = l
       /\ text' = s
       /\ result' = r
       /\ mnemonic' = Held(r)
       /\ madeBy' = "parse_in"
       /\ op' = "parse_in"
       /\ UNCHANGED << args, features, digestKey, entropy, orig >>

ParseIn ==
    \E l \in ArgLanguages :
       \/ op = "init" /\ \E s \in SpacedTexts(l) : ParseInOn(l, s)
       \/ \E s \in ArgTexts(GateTexts \cup SixTexts(l)) : ParseInOn(l, s)
       \/ op = "init" /\ \E s \in BlankTexts : ParseInOn(l, s)

ParseOn(s) ==
    LET r == parse(s)
    IN /\ text' = s
       /\ result' = r
       /\ mnemonic' = Held(r)
       /\ madeBy' = "parse"
       /\ op' = "parse"
       /\ UNCHANGED << args, features, digestKey, language, entropy, orig >>

Parse ==
    \/ \E s \in ArgTexts(ShortTexts \cup GateTexts) : ParseOn(s)
    \/ op = "init" /\ \E s \in BlankTexts : ParseOn(s)

LanguageOfOn(s) ==
    /\ text' = s
    /\ result' = language_of(s)
    /\ op' = "language_of"
    /\ UNCHANGED << args, features, digestKey, language, entropy, orig, mnemonic, madeBy >>

LanguageOf ==
    \/ \E s \in ArgTexts(ShortTexts \cup GateTexts) : LanguageOfOn(s)
    \/ op = "init" /\ \E s \in BlankTexts : LanguageOfOn(s)

ToEntropy ==
    /\ Holding
    /\ result' = to_entropy(mnemonic)
    /\ op' = "to_entropy"
    /\ UNCHANGED << args, features, digestKey, language, entropy, text, orig, mnemonic, madeBy >>

\* from_entropy_in(language, m.to_entropy()) of the Mnemonic m that
\* parse_in(language, text) returned.
reencode(l, m) ==
    LET e == to_entropy(m)
    IN IF IsOk(e) THEN from_entropy_in(l, e.val) ELSE e

Reencode ==
    /\ Holding
    /\ op = "parse_in"
    /\ result' = reencode(language, mnemonic)
    /\ op' = "reencode"
    /\ UNCHANGED << args, features, digestKey, language, entropy, text, orig, mnemonic, madeBy >>

\* The text s with its i-th word replaced by the word w.
ReplaceWord(s, i, w) ==
    LET words == split_whitespace(s)
    IN join([k \in 1..Len(words) |-> IF k = i THEN w ELSE words[k]], SPACE)

\* Replacements of a word of an accepted text: the last word by each of
\* the next MaxDelta words of the canonical list, the first word by the
\* next one, and either by a word of no list or of another list.
Replacements(l, words) ==
    LET n == Len(words)
        next(i, d) == word_list(l, (find_word(l, words[i]) + d) % TableSize)
    IN { << n, next(n, d) >> : d \in 1..MaxDelta }
         \cup { << 1, next(1, 1) >> }
         \cup { << i, << w >> >> : i \in { 1, n }, w \in { UnknownWord, 40000, 4 } }

\* validate_in on the accepted text of an encoded Mnemonic with one word
\* replaced by a different word.
ValidateReplaced ==
    /\ op = "validate_in"
    /\ madeBy = "from_entropy_in"
    /\ IsOk(result)
    /\ LET words == split_whitespace(text)
       IN \E r \in Replacements(language, words) :
            /\ r[2] # words[r[1]]
            /\ text' = ReplaceWord(text, r[1], r[2])
            /\ result' = validate_in(language, text')
    /\ orig' = text
    /\ op' = "validate_replaced"
    /\ UNCHANGED << args, features, digestKey, language, entropy, mnemonic, madeBy >>

GenerateIn ==
    /\ op = "init"
    /\ \E l \in Compiled, word_count \in 0..MaxGenWords, fill \in EntropyPatterns :
         LET r == generate_in(l, word_count, fill)
         IN /\ language' = l
            /\ args' = [call |-> "generate_in", word_count |-> word_count]
            /\ entropy' = IF IsOk(r) THEN fill_bytes((word_count \div 3) * 4, fill) ELSE << >>
            /\ result' = r
            /\ mnemonic' = Held(r)
    /\ madeBy' = "generate_in"
    /\ op' = "generate_in"
    /\ UNCHANGED << features, digestKey, text, orig >>

Next ==
    \/ FromEntropyIn
    \/ GenerateIn
    \/ ValidateIn
    \/ ParseIn
    \/ Parse
    \/ LanguageOf
    \/ ToEntropy
    \/ Reencode
    \/ ValidateReplaced

Spec == Init /\ [][Next]_vars

(***************************************************************************)
(* Seed derivation: to_seed on a Mnemonic from_entropy_in returned, and    *)
(* pbkdf2 on its own.                                                      *)
(***************************************************************************)
MaxRounds == 3
MaxOutLen == 130

\* The (language, entropy) the held Mnemonic was encoded from.
SeedHolders ==
    { << "English", EntropyOf(16, 1, 7) >>, << "Japanese", EntropyOf(32, 255, 0) >> }

\* Passphrases: empty, plain, with a composed character, with an
\* ideographic space.
Passphrases ==
    { << >>, << 84, 82, 69 >>, << 84, 1000082 >>, << 84, IDEOGRAPHIC_SPACE, 82 >> }

KdfPasswords == { << >>, << 200, 3, 77 >> }
KdfSalts == { << >>, << 5, 6 >> }
KdfFills == { 0, 173 }

InitKdf ==
    /\ features = OptionalLanguages
    /\ digestKey \in DigestKeys
    /\ \E h \in SeedHolders :
         /\ language = h[1]
         /\ entropy = h[2]
         /\ result = from_entropy_in(h[1], h[2])
         /\ mnemonic = Held(from_entropy_in(h[1], h[2]))
    /\ text = << >>
    /\ orig = << >>
    /\ madeBy = "from_entropy_in"
    /\ op = "from_entropy_in"
    /\ args = NoArgs

Pbkdf2 ==
    /\ op \in Constructors
    /\ \E P \in KdfPasswords, S \in KdfSalts, c \in 1..MaxRounds,
          n \in 0..MaxOutLen, fill \in KdfFills :
         LET res == SubSeq([k \in 1..n |-> fill], 1, n)
         IN /\ args' = [call |-> "pbkdf2", passphrase |-> P, salt |-> S, c |-> c,
                       res |-> res]
            /\ result' = Ok(pbkdf2(P, S, c, res))
    /\ op' = "pbkdf2"
    /\ UNCHANGED << features, digestKey, language, entropy, text, orig, mnemonic, madeBy >>

ToSeed ==
    /\ Holding
    /\ \E p \in Passphrases :
         /\ args' = [call |-> "to_seed", passphrase |-> p]
         /\ result' = Ok(to_seed(mnemonic, p))
    /\ op' = "to_seed"
    /\ UNCHANGED << features, digestKey, language, entropy, text, orig, mnemonic, madeBy >>

NextKdf ==
    \/ Pbkdf2
    \/ ToSeed

SpecKdf == InitKdf /\ [][NextKdf]_vars

(***************************************************************************)
(* The word tables on their own: WordMap's three functions.                *)
(***************************************************************************)
MaxPrefixLen == 2

\* Every index of a table.
Indices == 0..(TableSize - 1)

\* Words given to word_to_idx that idx_to_word did not return: table words
\* of every language, tokens between table words, a composed spelling.
LooseWords ==
    { ord_words(l, pos) + d :
        l \in OptionalLanguages \cup { "English" }, pos \in { 0, 3, 8, 2047 },
        d \in { 0, 2 } }
    \cup { 1000000 + ord_words("English", 5) }

\* Letters are 0..3.
RECURSIVE PrefixesOf(_)
PrefixesOf(n) ==
    IF n = 0 THEN { << >> }
    ELSE LET shorter == PrefixesOf(n - 1)
         IN shorter \cup { Append(p, d) : p \in { q \in shorter : Len(q) = n - 1 },
                                           d \in 0..3 }

\* Every prefix up to MaxPrefixLen letters, and some whole words.
Prefixes ==
    PrefixesOf(MaxPrefixLen)
    \cup { spelling(ord_words(l, pos)) : l \in { "English", "French" },
                                          pos \in { 3, 6, 15, 255, 2047 } }

InitTable ==
    /\ Init
    /\ features = OptionalLanguages
    /\ digestKey = 0

IdxToWord ==
    /\ op = "init"
    /\ \E l \in Compiled, idx \in Indices :
         /\ language' = l
         /\ args' = [call |-> "idx_to_word", idx |-> idx]
         /\ result' = Ok(idx_to_word(l, idx))
    /\ op' = "idx_to_word"
    /\ UNCHANGED << features, digestKey, entropy, text, orig, mnemonic, madeBy >>

\* word_to_idx of the word idx_to_word returned, or of a loose word.
WordToIdx ==
    /\ \/ /\ op = "idx_to_word"
          /\ args' = [call |-> "word_to_idx", word |-> result.val, idx |-> args.idx]
          /\ result' = Ok(word_to_idx(language, result.val))
          /\ UNCHANGED language
       \/ /\ op = "init"
          /\ \E l \in Compiled, w \in LooseWords :
               /\ language' = l
               /\ args' = [call |-> "word_to_idx", word |-> w, idx |-> None]
               /\ result' = Ok(word_to_idx(l, w))
    /\ op' = "word_to_idx"
    /\ UNCHANGED << features, digestKey, entropy, text, orig, mnemonic, madeBy >>

WordsByPrefix ==
    /\ op = "init"
    /\ \E l \in Compiled, prefix \in Prefixes :
         /\ language' = l
         /\ args' = [call |-> "words_by_prefix", prefix |-> prefix]
         /\ result' = Ok(words_by_prefix(l, prefix))
    /\ op' = "words_by_prefix"
    /\ UNCHANGED << features, digestKey, entropy, text, orig, mnemonic, madeBy >>

NextTable ==
    \/ IdxToWord
    \/ WordToIdx
    \/ WordsByPrefix

SpecTable == InitTable /\ [][NextTable]_vars

(***************************************************************************)
(* Properties.                                                             *)
(***************************************************************************)
WordsOf(s) == split_whitespace(s)
WordCount(s) == Len(split_whitespace(s))
Range(q) == { q[i] : i \in 1..Len(q) }

\* The text is the as_str() of the Mnemonic from_entropy_in(language,
\* entropy) returned.
IsEncoded(s) ==
    LET m == from_entropy_in(language, entropy)
    IN IsOk(m) /\ s = m.val

\* C1: for every compiled-in language and every entropy of 16, 20, 24, 28
\* or 32 bytes, from_entropy_in succeeds and to_entropy of the Mnemonic it
\* returned gives back exactly the entropy.
C1_RoundTrip ==
    /\ (op = "from_entropy_in" /\ Len(entropy) \in { 16, 20, 24, 28, 32 })
          => IsOk(result)
    /\ (op = "to_entropy" /\ madeBy = "from_entropy_in"
          /\ Len(entropy) \in { 16, 20, 24, 28, 32 })
          => (IsOk(result) /\ result.val = entropy)

\* C5: to_entropy is infallible: on every Mnemonic returned by
\* from_entropy_in, parse_in or parse, in every build, it returns a byte
\* vector and neither of its unwraps fails.
C5_ToEntropyInfallible ==
    op = "to_entropy" => IsOk(result)

\* C6: every Mnemonic from_entropy_in returns is accepted by validate_in in
\* the same language.
C6_EncodedValidates ==
    (op = "validate_in" /\ IsEncoded(text)) => IsOk(result)

\* Every word of the text is in the language's table.
AllKnown(l, s) ==
    LET words == WordsOf(s)
    IN \A k \in 1..Len(words) : find_word(l, words[k]) # None

\* The entropy bits the words' indices spell: every bit of the indices but
\* the checksum bits, the last (word count / 3) bits of the last index.
EntropyBitsOf(l, s) ==
    LET idxs == WordIndices(l, WordsOf(s))
        n == Len(idxs)
    IN SubSeq([k \in 1..n |-> IF k < n THEN idxs[k] ELSE idxs[n] \div Pow2(n \div 3)],
              1, n)

\* `text` is `orig` with exactly one word replaced by a different word.
OneWordReplaced ==
    LET new == WordsOf(text)
        old == WordsOf(orig)
    IN /\ Len(new) = Len(old)
       /\ Cardinality({ k \in 1..Len(new) : new[k] # old[k] }) = 1

\* C2 as claimed: replacing one word of an accepted text by any different
\* word gives a text validate_in rejects with InvalidChecksum or
\* UnknownWord, never Ok.
C2_ReplacedNeverOk ==
    (op = "validate_replaced" /\ OneWordReplaced)
        => (IsErr(result, "InvalidChecksum") \/ IsErr(result, "UnknownWord"))

\* C2 amended: replacing one word of an accepted text gives UnknownWord
\* when the new word is not in the table and InvalidChecksum when it is in
\* the table and spells the same entropy bits (it differs in checksum bits
\* only); the replaced text is accepted only if its entropy bits differ
\* from the original's, and is otherwise rejected with InvalidChecksum.
C2_ReplacedOkOnlyWithNewEntropy ==
    (op = "validate_replaced" /\ OneWordReplaced) =>
        IF ~AllKnown(language, text) THEN IsErr(result, "UnknownWord")
        ELSE /\ IsOk(result) \/ IsErr(result, "InvalidChecksum")
             /\ EntropyBitsOf(language, text) = EntropyBitsOf(language, orig)
                   => IsErr(result, "InvalidChecksum")

\* C2 witness: a replacement by a table word that leaves the entropy bits
\* as they were, rejected for its checksum.
C2_Witness ==
    /\ op = "validate_replaced" /\ OneWordReplaced
    /\ AllKnown(language, text)
    /\ EntropyBitsOf(language, text) = EntropyBitsOf(language, orig)
    /\ IsErr(result, "InvalidChecksum")

\* The gate of lib.rs 189 rejects this word count.
GateRejects(n) == n < MinWords \/ n % WordStep # 0 \/ n > MaxWords

\* C3 as claimed: validate_in, parse_in and parse return BadWordCount(n)
\* for every text whose word count n the gate does not permit, whatever
\* its words are.
C3_GateBeforeLookup ==
    (op \in { "validate_in", "parse_in", "parse" } /\ GateRejects(WordCount(text)))
        => result = Err("BadWordCount", WordCount(text))

\* C3 amended: validate_in and parse_in return BadWordCount(n) for every
\* text whose word count n is below 6, above 24 or no multiple of 6,
\* unknown words or not; parse returns BadWordCount(n) for such a text only
\* if language_of resolves a language for it, and otherwise fails as
\* language_of does (UnknownWord, AmbiguousWordList, or the panic of its
\* unwrap on a text without words).
C3_GateBeforeLookupInValidate ==
    GateRejects(WordCount(text)) =>
        /\ op \in { "validate_in", "parse_in" }
              => result = Err("BadWordCount", WordCount(text))
        /\ op = "parse"
              => LET lang == language_of(normalize_utf8_cow(text))
                 IN IF IsOk(lang) THEN result = Err("BadWordCount", WordCount(text))
                    ELSE ~IsErr(result, "BadWordCount") /\ result = lang

\* C3 witness: validate_in rejects for the word count a text holding a
\* word of no list.
C3_Witness ==
    /\ op = "validate_in"
    /\ GateRejects(WordCount(text))
    /\ \E k \in 1..WordCount(text) : WordsOf(text)[k] = << UnknownWord >>
    /\ result = Err("BadWordCount", WordCount(text))

\* C4: validate_in and parse_in succeed only on texts of 12, 18 or 24
\* words; a text of 6, 15 or 21 words is never accepted.
C4_AcceptsOnly12_18_24 ==
    (op \in { "validate_in", "parse_in" } /\ IsOk(result))
        => WordCount(text) \in { 12, 18, 24 }

\* The length check of lib.rs 125-131 rejects an entropy of n bytes.
LengthRejected(n) ==
    n % 4 # 0 \/ n * 8 < MinEntropyBits \/ n * 8 > MaxEntropyBits

\* C7: from_entropy_in returns BadEntropyBitCount(8 * len) exactly when len
\* is no multiple of 4 or 8 * len is outside 128..256, and for every other
\* entropy a Mnemonic of len * 3 / 4 words.
C7_LengthCheck ==
    op = "from_entropy_in" =>
        IF LengthRejected(Len(entropy))
        THEN result = Err("BadEntropyBitCount", 8 * Len(entropy))
        ELSE IsOk(result) /\ WordCount(result.val) = (Len(entropy) * 3) \div 4

\* C7 witness: an entropy of the right bit range whose length is no multiple
\* of 4 is rejected, and one of 20 bytes gives 15 words.
C7_Witness ==
    /\ op = "from_entropy_in"
    /\ \/ Len(entropy) = 17 /\ result = Err("BadEntropyBitCount", 136)
       \/ Len(entropy) = 20 /\ IsOk(result) /\ WordCount(result.val) = 15

\* C8: for every language and every entropy of 16, 24 or 32 bytes, parse_in
\* of the text of the Mnemonic from_entropy_in returned succeeds and returns
\* an equal Mnemonic.
C8_ParseInOfEncoded ==
    (op = "parse_in" /\ Len(entropy) \in { 16, 24, 32 } /\ IsEncoded(text))
        => (result = Ok(text) /\ result = from_entropy_in(language, entropy))

\* C8 witness: parse_in has returned the Mnemonic encoded from 32 bytes in a
\* language other than English.
C8_Witness ==
    /\ op = "parse_in" /\ Len(entropy) = 32 /\ IsEncoded(text)
    /\ language # "English"
    /\ result = Ok(text)

\* The first word of the text is in a compiled-in unique-word language.
FirstInUnique(s) ==
    \E l \in Compiled : unique_words(l) /\ find_word(l, WordsOf(s)[1]) # None

\* The compiled-in languages without unique words whose table has each of
\* the first k words of the text.
Cand(s, k) ==
    LET words == WordsOf(s)
    IN { l \in Compiled :
           ~unique_words(l) /\ \A j \in 1..k : find_word(l, words[j]) # None }

\* C9: language_of returns AmbiguousWordList(S) exactly when the first word
\* is in no unique-word language and two or more languages without unique
\* words contain every word of the text; S is exactly those languages.
C9_AmbiguousExactly ==
    op = "language_of" =>
        LET n == WordCount(text)
            surv == Cand(text, n)
            amb == n >= 1 /\ ~FirstInUnique(text) /\ Cardinality(surv) >= 2
        IN /\ IsErr(result, "AmbiguousWordList") <=> amb
           /\ amb => (Range(result.arg) = surv /\ Len(result.arg) = Cardinality(surv))

\* C9 witness: AmbiguousWordList naming two of the four languages without
\* unique words of the build.
C9_Witness ==
    /\ op = "language_of"
    /\ IsErr(result, "AmbiguousWordList")
    /\ Cardinality(Cand(text, 0)) = 4
    /\ Range(result.arg) = { "English", "French" }

\* The positions of the text after whose word at most one candidate is left.
Decided(s) == { k \in 1..WordCount(s) : Cardinality(Cand(s, k)) <= 1 }

\* The least element of a non-empty set of numbers.
Least(S) == CHOOSE k \in S : \A j \in S : k <= j

\* C10: in the elimination path language_of returns, at the first word
\* after which at most one candidate is left, Ok of that candidate or
\* UnknownWord of that word if none is left, having taken no later word from
\* the text; a text whose words are in no compiled-in language fails with
\* UnknownWord.
C10_Elimination ==
    (op = "language_of" /\ WordCount(text) >= 1 /\ ~FirstInUnique(text)) =>
        LET run == language_of_run(text)
        IN /\ result = run.res
           /\ Decided(text) # {} =>
                LET k0 == Least(Decided(text))
                IN /\ run.looked = k0
                   /\ IF Cand(text, k0) = {}
                      THEN result = Err("UnknownWord", WordsOf(text)[k0])
                      ELSE \E l \in Cand(text, k0) : result = Ok(l)
           /\ Cand(text, 1) = {} => IsErr(result, "UnknownWord")
           /\ Decided(text) = {} => ~IsOk(result) /\ ~IsErr(result, "UnknownWord")

\* C10 witness: the language is returned at the second word of a text whose
\* third word is in no compiled-in language.
C10_Witness ==
    /\ op = "language_of"
    /\ WordCount(text) >= 3
    /\ ~FirstInUnique(text)
    /\ Cardinality(Cand(text, 1)) = 2
    /\ Decided(text) # {}
    /\ Least(Decided(text)) = 2
    /\ IsOk(result)
    /\ \A l \in Compiled : find_word(l, WordsOf(text)[3]) = None

\* The unique-word languages of Language::all(), in its order, whose table
\* has the first word of the text.
UniqueHits(s) ==
    SelectSeq(all(features),
              LAMBDA l : unique_words(l) /\ find_word(l, WordsOf(s)[1]) # None)

\* C11: if the first word is in the table of a unique-word language,
\* language_of returns the first such language of Language::all() having
\* taken no word into the elimination loop, whatever the other words are;
\* the elimination loop runs only when no unique-word language has the
\* first word.
C11_FastPath ==
    (op = "language_of" /\ WordCount(text) >= 1) =>
        LET run == language_of_run(text)
        IN /\ FirstInUnique(text) => (result = Ok(UniqueHits(text)[1]) /\ run.looked = 0)
           /\ run.looked >= 1 => ~FirstInUnique(text)
           /\ ~FirstInUnique(text) => run.looked >= 1

\* C11 witness: a text whose first word is Japanese and whose second word
\* is in no compiled-in table is detected as Japanese.
C11_Witness ==
    /\ op = "language_of"
    /\ WordCount(text) >= 2
    /\ find_word("Japanese", WordsOf(text)[1]) # None
    /\ \A l \in Compiled : find_word(l, WordsOf(text)[2]) = None
    /\ result = Ok("Japanese")

\* The other compiled-in languages without unique words whose table has
\* every word of the text.
Others(l, s) == Cand(s, WordCount(s)) \ { l }

Zeros(n) == SubSeq([k \in 1..n |-> 0], 1, n)

\* C13: to_seed(m, p) is the KDF applied to password = NFKD(text of m),
\* salt = "mnemonic" followed by NFKD(p), 2048 iterations and 64 output
\* bytes, for every Mnemonic m and passphrase p, the empty one included; it
\* is a function of (text of m, p) alone.
C13_SeedIsKdf ==
    op = "to_seed" =>
        /\ result = Ok(pbkdf2(nfkd(mnemonic), MnemonicPrefix \o nfkd(args.passphrase),
                              2048, Zeros(64)))
        /\ Len(result.val) = 64

\* C13 witness: a seed derived from a Japanese Mnemonic with a passphrase
\* that NFKD changes.
C13_Witness ==
    /\ op = "to_seed"
    /\ language = "Japanese"
    /\ nfkd(args.passphrase) # args.passphrase
    /\ Len(result.val) = 64

\* RFC 8018 section 5.2. INT(i): i as four bytes, most significant first.
RfcInt(i) ==
    << (i \div 16777216) % 256, (i \div 65536) % 256, (i \div 256) % 256, i % 256 >>

\* U_j of block i.
RECURSIVE RfcU(_, _, _, _)
RfcU(P, S, i, j) ==
    IF j = 1 THEN hmac(HmacEngine(P), S \o RfcInt(i))
    ELSE LET prev == RfcU(P, S, i, j - 1)
         IN hmac(HmacEngine(P), prev)

\* U_1 xor ... xor U_j of block i.
RECURSIVE RfcXorTo(_, _, _, _)
RfcXorTo(P, S, i, j) ==
    IF j = 1 THEN RfcU(P, S, i, 1)
    ELSE LET acc == RfcXorTo(P, S, i, j - 1)
             u == RfcU(P, S, i, j)
         IN SubSeq([k \in 1..64 |-> XorByte(acc[k], u[k])], 1, 64)

\* The first len bytes of T_1 || T_2 || ...
RfcDK(P, S, c, len) ==
    LET blocks == (len + 63) \div 64
        T == SubSeq([i \in 1..blocks |-> RfcXorTo(P, S, i, c)], 1, blocks)
    IN SubSeq([k \in 1..len |-> T[((k - 1) \div 64) + 1][((k - 1) % 64) + 1]], 1, len)

\* C15: pbkdf2(P, S, c, out) with c >= 1 fills out with the first len(out)
\* bytes of T1 || T2 || ..., Ti = U1 xor ... xor Uc, U1 = HMAC(P, S || INT(i))
\* with i from 1, Uj = HMAC(P, U(j-1)), for every output length, the last
\* block being truncated, whatever out held before the call.
C15_Pbkdf2IsRfc ==
    (op = "pbkdf2" /\ args.c >= 1) =>
        result = Ok(RfcDK(args.passphrase, args.salt, args.c, Len(args.res)))

\* C15 witness: three iterations into a buffer of two blocks and one byte
\* that held other bytes before.
C15_Witness ==
    /\ op = "pbkdf2"
    /\ args.c = 3
    /\ Len(args.res) = 129
    /\ args.res[129] # 0
    /\ Len(result.val) = 129

\* C14: for every valid entropy e the text of
\* from_entropy_in(Language::Japanese, e) separates its words with the
\* ideographic space U+3000, not with the ASCII space.
C14_JapaneseIdeographicSpace ==
    (op = "from_entropy_in" /\ language = "Japanese" /\ IsOk(result)
        /\ Len(entropy) \in { 16, 24, 32 }) =>
        \A i \in 1..Len(result.val) :
            IsWhitespace(result.val[i]) => result.val[i] = IDEOGRAPHIC_SPACE

\* The words of the language's table.
TableWords(l) == { ord_words(l, pos) : pos \in Indices }

\* Lexicographic order of spellings.
LexLess(a, b) ==
    \E k \in 1..Len(b) :
        /\ \A j \in 1..(k - 1) : j <= Len(a) /\ a[j] = b[j]
        /\ k > Len(a) \/ a[k] < b[k]
LexLeq(a, b) == a = b \/ LexLess(a, b)

\* C16: words_by_prefix(prefix) returns exactly the table's words that
\* start with prefix, none missing and none extra, as one contiguous run in
\* lexicographic order; the empty prefix returns all 2048 words and a
\* prefix no word starts with returns the empty sequence.
C16_WordsByPrefix ==
    op = "words_by_prefix" =>
        LET s == result.val
            prefix == args.prefix
            want == { w \in TableWords(language) : starts_with(spelling(w), prefix) }
        IN /\ Range(s) = want
           /\ Len(s) = Cardinality(want)
           /\ \A k \in 1..(Len(s) - 1) : LexLess(spelling(s[k]), spelling(s[k + 1]))
           /\ s # << >> =>
                \A w \in TableWords(language) :
                    (LexLeq(spelling(s[1]), spelling(w))
                        /\ LexLeq(spelling(w), spelling(s[Len(s)]))) => w \in want
           /\ prefix = << >> => Len(s) = 2048
           /\ want = {} => s = << >>

\* C16 witness: a prefix that some French words start with and others do
\* not, one of the words being the prefix itself.
C16_Witness ==
    /\ op = "words_by_prefix"
    /\ language = "French"
    /\ Len(result.val) > 1
    /\ Len(result.val) < TableSize
    /\ spelling(result.val[1]) = args.prefix
    /\ result.val[1] # ord_words("French", 0)

\* C17: for every language and every index i in 0..2047,
\* word_to_idx(idx_to_word(i)) = Some(i), and word_to_idx(w) = None for every
\* w not in the table; the index is the word's position in the canonical
\* list, not its position in the sorted storage.
C17_TableBijection ==
    op = "word_to_idx" =>
        /\ args.idx # None =>
             /\ result = Ok(args.idx)
             /\ word_list(language, args.idx) = << args.word >>
        /\ args.word \notin TableWords(language) => result = Ok(None)
        /\ result # Ok(None) => word_list(language, result.val) = << args.word >>

\* C17 witness: a Japanese word whose index is not its sorted position.
C17_Witness ==
    /\ op = "word_to_idx"
    /\ language = "Japanese"
    /\ args.idx # None
    /\ ord_words(language, args.idx) # args.word
    /\ result = Ok(args.idx)

\* The bytes whose bits are the bit string of the encoding: the entropy
\* followed by the first bytes of its digest.
EncodedStream(e) == e \o << sha256(e)[0], sha256(e)[1], 0 >>

\* The value of bits [11k, 11k+11) of the stream, most significant first:
\* the three bytes the bits lie in, shifted and masked.
StreamIndex(stream, k) ==
    LET at == (11 * k) \div 8
        off == (11 * k) % 8
        v == stream[at + 1] * 65536 + stream[at + 2] * 256 + stream[at + 3]
    IN (v \div (2 ^ (13 - off))) % 2048

\* C18: for accepted entropy e of n bytes, word k (from 0) of
\* from_entropy_in(L, e) is the word of L whose canonical index is the value
\* of bits [11k, 11k+11), most significant bit first, of the 8n bits of e
\* followed by the first n/4 bits of SHA-256(e).
C18_EncodeBitLayout ==
    (op = "from_entropy_in" /\ IsOk(result)) =>
        LET words == WordsOf(result.val)
            n == Len(entropy)
            stream == EncodedStream(entropy)
        IN /\ Len(words) * 11 = 8 * n + n \div 4
           /\ \A k \in 0..(Len(words) - 1) :
                words[k + 1] = word_list(language, StreamIndex(stream, k))

\* C18 witness: 32 bytes of mixed bits encoded in Japanese.
C18_Witness ==
    /\ op = "from_entropy_in" /\ IsOk(result)
    /\ language = "Japanese"
    /\ Len(entropy) = 32
    /\ entropy[1] # entropy[2]
    /\ WordCount(result.val) = 24

\* Byte i (from 0) of the concatenated 11-bit indices, most significant bit
\* first: the two indices its bits lie in, shifted and masked.
IndexByte(idxs, i) ==
    LET at == (8 * i) \div 11
        off == (8 * i) % 11
        next == IF at + 2 <= Len(idxs) THEN idxs[at + 2] ELSE 0
        v == idxs[at + 1] * 2048 + next
    IN (v \div (2 ^ (14 - off))) % 256

\* The entropy bytes formed by the bits before the last (word count / 3).
CandidateEntropy(idxs) ==
    LET bytes == (Len(idxs) \div 3) * 4
    IN SubSeq([i \in 1..bytes |-> IndexByte(idxs, i - 1)], 1, bytes)

\* The last (word count / 3) bits of the indices equal the leading bits of
\* SHA-256 of the candidate entropy.
ChecksumMatches(idxs) ==
    LET cs == Len(idxs) \div 3
    IN idxs[Len(idxs)] % (2 ^ cs) = sha256(CandidateEntropy(idxs))[0] \div (2 ^ (8 - cs))

\* C19: when the word count passes the gate and every word is in L's table,
\* validate_in(L, s) returns Ok exactly when the last (word count / 3) bits
\* of the concatenated 11-bit indices equal the leading bits of SHA-256 of
\* the entropy bytes formed by the preceding bits, and InvalidChecksum
\* otherwise.
C19_ChecksumDecides ==
    (op \in { "validate_in", "validate_replaced" }
        /\ ~GateRejects(WordCount(text)) /\ AllKnown(language, text)) =>
        LET idxs == WordIndices(language, WordsOf(text))
        IN IF ChecksumMatches(idxs)
           THEN result = Ok(Unit)
           ELSE result = Err("InvalidChecksum", Unit)

\* C19 witness: a text of twelve table words whose checksum bits are not
\* those of its entropy bits.
C19_Witness ==
    /\ op = "validate_replaced"
    /\ WordCount(text) = 12
    /\ AllKnown(language, text)
    /\ result = Err("InvalidChecksum", Unit)
    /\ ~ChecksumMatches(WordIndices(language, WordsOf(text)))

\* C20: when the word count passes the gate, validate_in(L, s) returns
\* UnknownWord(w), w being the first word of s, in order, that is not an
\* exact match in L's table; an unknown word is reported in preference to
\* InvalidChecksum, and exactly one error is returned.
C20_FirstUnknownWord ==
    (op \in { "validate_in", "validate_replaced" }
        /\ ~GateRejects(WordCount(text)) /\ ~AllKnown(language, text)) =>
        LET words == WordsOf(text)
        IN \E k \in 1..Len(words) :
              /\ find_word(language, words[k]) = None
              /\ \A j \in 1..(k - 1) : find_word(language, words[j]) # None
              /\ result = Err("UnknownWord", words[k])

\* C20 witness: a text with two different words that are not in the table,
\* the first of them reported.
C20_Witness ==
    /\ op = "validate_in"
    /\ ~GateRejects(WordCount(text))
    /\ IsErr(result, "UnknownWord")
    /\ \E j, k \in 1..WordCount(text) :
          /\ j < k
          /\ find_word(language, WordsOf(text)[j]) = None
          /\ find_word(language, WordsOf(text)[k]) = None
          /\ WordsOf(text)[j] # WordsOf(text)[k]
          /\ result.arg = WordsOf(text)[j]

\* C21: language_of(s), and therefore parse(s), returns Err(BadWordCount(0))
\* for a text with no words (empty or whitespace only); the failure is an
\* error value, not a panic.
C21_BlankIsBadWordCount ==
    (op \in { "language_of", "parse" } /\ WordCount(text) = 0) =>
        result = Err("BadWordCount", 0)

\* C22: generate_in(L, n) returns BadWordCount(n) for every word count n
\* other than 12, 18 and 24, and for n in {12, 18, 24} returns a Mnemonic of
\* exactly n words.
C22_GenerateCounts ==
    op = "generate_in" =>
        IF args.word_count \in { 12, 18, 24 }
        THEN IsOk(result) /\ WordCount(result.val) = args.word_count
        ELSE result = Err("BadWordCount", args.word_count)

\* C23: for every language L and text s, if parse_in(L, s) returns a
\* Mnemonic m, then from_entropy_in(L, m.to_entropy()) succeeds and returns
\* a Mnemonic equal to m.
C23_ParsedIsCanonical ==
    op = "reencode" => result = Ok(mnemonic)

\* The entropy bytes validate_in rebuilds from its bit vector (lib.rs
\* 193-211) for a text whose words are all in the table.
ValidateEntropy(l, s) ==
    LET idxs == WordIndices(l, WordsOf(s))
        ent == BitsEntropy(IndexBitsOf(idxs), Len(idxs) * IndexBits)
    IN SubSeq(ent, 1, ((Len(idxs) * IndexBits) \div 33) * 4)

\* The accumulator before word idx is taken: fewer than 8 bits pending, all
\* of them at the top of remainder; taking the word shifts no set bit out
\* and leaves at most 18 bits pending.
AccSound(acc, idx) ==
    LET placed == Shl(AsU32(idx), RemainderBits - IndexBits)
    IN /\ acc.offset < 8
       /\ \A k \in 0..(RemainderBits - 1 - acc.offset) : ~acc.remainder[k + 1]
       /\ Shl(Shr(placed, acc.offset), acc.offset) = placed
       /\ \A k \in 0..(RemainderBits - 1) :
             ~(acc.remainder[k + 1] /\ Shr(placed, acc.offset)[k + 1])
       /\ acc.offset + IndexBits <= 18

\* AccSound before each word from word i on.
RECURSIVE AccSoundFrom(_, _, _, _)
AccSoundFrom(lang, words, i, acc) ==
    IF i > Len(words) THEN TRUE
    ELSE LET idx == find_word(lang, words[i])
             pushed == PushWord(acc, idx)
         IN /\ AccSound(acc, idx)
            /\ pushed.offset < RemainderBits
            /\ AccSoundFrom(lang, words, i + 1, pushed)

\* C24: for every text validate_in(L, .) accepts and for which to_entropy
\* resolves the same language L, the entropy bytes validate_in rebuilds from
\* its bit vector are the bytes to_entropy returns; the accumulator loses no
\* bit, offset being below 8 at the start of each word and remainder never
\* holding more than 18 pending bits.
C24_DecodersAgree ==
    (op = "to_entropy" /\ validate_in(language, mnemonic) = Ok(Unit)
        /\ language_of(mnemonic) = Ok(language)) =>
        /\ result = Ok(ValidateEntropy(language, mnemonic))
        /\ AccSoundFrom(language, WordsOf(mnemonic), 1,
                        [entropy |-> << >>, remainder |-> U32Zero, offset |-> 0])

\* C24 witness: to_entropy of a Japanese Mnemonic of 24 words parse_in
\* returned.
C24_Witness ==
    /\ op = "to_entropy"
    /\ madeBy = "parse_in"
    /\ language = "Japanese"
    /\ WordCount(mnemonic) = 24
    /\ validate_in(language, mnemonic) = Ok(Unit)
    /\ language_of(mnemonic) = Ok(language)
    /\ IsOk(result) /\ Len(result.val) = 32
====
